---- MODULE Spec2Model ----
(***************************************************************************)
(* Model of src/realtime_tcn.js: the per-frame feature extraction and      *)
(* state machines of the real-time drowsiness page (eye debounce, blink    *)
(* runs, PERCLOS ring, mouth hysteresis, nod rule, per-session mu/sigma,   *)
(* the 90-row TCN window and the hysteresis on the classifier output).     *)
(*                                                                         *)
(* Numbers.  JavaScript doubles are modelled in fixed point: a real x is   *)
(* the integer x * SCALE, and SCALE = 100 * TARGET_FPS so that DT = 1/15 s *)
(* and every threshold of the source (0.40, 0.45, 0.55, 0.65, 1.3, ...)    *)
(* is an exact integer.  NaN is a value of its own that every arithmetic   *)
(* operator propagates and every comparison rejects, as in IEEE 754.       *)
(* Time.  performance.now()/1000 is the clock `now`, counted in units of   *)
(* DT (1/15 s); it advances between callbacks, never inside one.           *)
(***************************************************************************)
EXTENDS Integers, Sequences, FiniteSets, TLC

(* ------------------------------ constants ------------------------------ *)
TARGET_FPS == 15
SCALE == 100 * TARGET_FPS
DT == SCALE \div TARGET_FPS
TCN_WINDOW == 90

FEAT_ORDER ==
  << "yaw_adj", "pitch_adj", "roll_adj",
     "dyaw_adj_per_s", "dpitch_adj_per_s", "droll_adj_per_s",
     "eye_open_unified", "ema_eye_open_1s", "ema_eye_open_5s", "eye_open_trend_3s",
     "eye_close_dur_s", "eye_run_len_frames", "perclos_30s", "blink_rate_30s",
     "max_close_run_10s", "time_since_last_blink_s",
     "yawn_prob_ema_1s", "mouth_open_run_s", "mouth_open_rate_30s",
     "time_since_last_yawn_s" >>
F == Len(FEAT_ORDER)

EYE_CLOSE_T == 600
FRM_2P5S == (8 * TARGET_FPS + 5) \div 10
BLINK_MIN_F == 2
BLINK_MAX_F == 6
EYE_DEBOUNCE_ON_F == 2
EYE_DEBOUNCE_OFF_F == 2
BLINK_LOCK_FRM == 2 * TARGET_FPS
PER_30S == 30 * TARGET_FPS

MOUTH_ON_T == 825
MOUTH_OFF_T == 675
MOUTH_PROLONG_S == 1950
MOUTH_SHORT_MIN_S == 150
MOUTH_SHORT_MAX_S == 750
TS_MAX == 30
ON_THRESH == 975
OFF_THRESH == 825
NORM_SECONDS == 10
MIN_ACCEPTED == 60

FPS_FIXED == 15
MAXN == 5

\* 1 - exp(-DT/1.0) and 1 - exp(-DT/5.0), as fractions of AlphaDen
AlphaEye1 == 645
AlphaEye5 == 132
AlphaDen == 100 * 100

\* lastProlongStartFrame's "never" value, -1e9
NEVER_FRAME == -1000000000

(* ------------------------------- numbers ------------------------------- *)
NaN == -(2 ^ 30)

IsFinite(x) == x # NaN

Max(a, b) == IF a >= b THEN a ELSE b
Min(a, b) == IF a <= b THEN a ELSE b

\* a / b rounded to the nearest integer, b > 0
RoundDiv(a, b) == (2 * a + b) \div (2 * b)

\* a real given in hundredths
Pct(p) == p * (SCALE \div 100)

Add(a, b) == IF a = NaN \/ b = NaN THEN NaN ELSE a + b
Sub(a, b) == IF a = NaN \/ b = NaN THEN NaN ELSE a - b

MulFx(a, b) ==
  IF a = NaN \/ b = NaN THEN NaN
  ELSE (a \div SCALE) * b + RoundDiv((a % SCALE) * b, SCALE)

DivFx(a, b) ==
  IF a = NaN \/ b = NaN THEN NaN
  ELSE (a \div b) * SCALE + RoundDiv((a % b) * SCALE, b)

\* comparisons: false as soon as one side is NaN
Lt(a, b) == a # NaN /\ b # NaN /\ a < b
Le(a, b) == a # NaN /\ b # NaN /\ a <= b
Ge(a, b) == a # NaN /\ b # NaN /\ a >= b
Gt(a, b) == a # NaN /\ b # NaN /\ a > b

Abs(a) == IF a = NaN THEN NaN ELSE IF a < 0 THEN -a ELSE a

RECURSIVE ISqrtFrom(_, _)
ISqrtFrom(n, r) == IF (r + 1) * (r + 1) > n THEN r ELSE ISqrtFrom(n, r + 1)

\* Math.sqrt of a fixed-point value
SqrtFx(v) == IF v = NaN \/ v < 0 THEN NaN ELSE ISqrtFrom(v * SCALE, 0)

finiteOr(v, def) == IF IsFinite(v) THEN v ELSE def

\* a clock span, in units of DT, as fixed-point seconds
Sec(t) == t * DT

Zeros(n) == [i \in 1..n |-> 0]

RECURSIVE SumSeq(_)
SumSeq(s) == IF s = <<>> THEN 0 ELSE Head(s) + SumSeq(Tail(s))

(* --------------------- Ring: buffer with running sum -------------------- *)
RingNew(n) == [n |-> n, buf |-> [k \in 0..(n - 1) |-> 0], sum |-> 0, count |-> 0, i |-> 0]

\* RingPush that forgets to subtract the evicted sample
RingPush_NoEvict(r, v) ==
  IF r.count < r.n
  THEN [r EXCEPT !.buf[r.i] = v, !.sum = r.sum + v,
                 !.i = (r.i + 1) % r.n, !.count = r.count + 1]
  ELSE [r EXCEPT !.buf[r.i] = v, !.sum = r.sum + v, !.i = (r.i + 1) % r.n]

RingPush(r, v) ==
  IF r.count < r.n
  THEN [r EXCEPT !.buf[r.i] = v, !.sum = r.sum + v,
                 !.i = (r.i + 1) % r.n, !.count = r.count + 1]
  ELSE [r EXCEPT !.buf[r.i] = v, !.sum = (r.sum - r.buf[r.i]) + v,
                 !.i = (r.i + 1) % r.n]

\* the mean of 0/1 samples, as a fixed-point fraction
RingMean(r) == IF r.count # 0 THEN RoundDiv(r.sum * SCALE, r.count) ELSE 0

RingReset(r) == [r EXCEPT !.sum = 0, !.count = 0, !.i = 0, !.buf = [k \in 0..(r.n - 1) |-> 0]]

(* ------------------------- pose: baseline, rates ------------------------ *)
\* A head pose is <<yaw, pitch, roll>> in fixed-point degrees: the Euler angles
\* of the face axes.  The captured reference R0 is such a triple, or <<>> when
\* none is captured; re-expressing the axes in the reference frame is modelled
\* as the per-angle difference (exact for rotations about a single axis).
NoBaseline == <<>>

baseline_has(R0) == R0 # NoBaseline

baseline_applyIfReady(R0, pre) ==
  IF R0 = NoBaseline THEN pre ELSE [k \in 1..3 |-> Sub(pre[k], R0[k])]

\* getSmoothDelta: the history after buf.push(newVal) and the shift
SmoothBuf(buf, newVal) ==
  LET b == Append(buf, newVal) IN IF Len(b) > MAXN THEN Tail(b) ELSE b

\* getSmoothDelta: the derivative estimate d over the updated history
SmoothD(buf) ==
  LET n == Len(buf) IN
  IF n >= 3 THEN
    LET diff == Sub(buf[n], buf[n - 2]) IN
    IF diff = NaN THEN NaN ELSE RoundDiv(diff * FPS_FIXED, 2)
  ELSE IF n >= 2 THEN
    LET diff == Sub(buf[n], buf[n - 1]) IN
    IF diff = NaN THEN NaN ELSE diff * FPS_FIXED
  ELSE 0

\* getSmoothDelta: deltaEMA*(1-k) + d*k with k = 0.3
SmoothEMA(ema, d) ==
  IF ema = NaN \/ d = NaN THEN NaN ELSE RoundDiv(7 * ema + 3 * d, 10)

(* ------------------------------ eye pipeline ---------------------------- *)
\* the yaw-weighted mean of the two eye probabilities (lines 413-416);
\* eyes is <<>> when a crop is missing, else <<eyeLProb, eyeRProb>>
UnifiedEyeProb(eyes, yawDeg) ==
  IF eyes = <<>> THEN NaN
  ELSE
    LET maxYaw == 20 * SCALE
        yawClamped == IF Lt(Abs(yawDeg), maxYaw) THEN Abs(yawDeg) ELSE maxYaw
        shrink == Max(SCALE \div 10, SCALE - DivFx(yawClamped, maxYaw))
        wL == IF Ge(yawDeg, 0) THEN SCALE ELSE shrink
        wR == IF Le(yawDeg, 0) THEN SCALE ELSE shrink
    IN  IF yawDeg = NaN \/ eyes[1] = NaN \/ eyes[2] = NaN THEN NaN
        ELSE RoundDiv(eyes[1] * wL + eyes[2] * wR, wL + wR)

EyeClosedRaw(unifiedEyeProb) ==
  IF unifiedEyeProb # NaN /\ unifiedEyeProb < EYE_CLOSE_T THEN 1 ELSE 0

\* one exponential-filter step: ema += alpha * (v - ema)
EmaStep(ema, v, alphaNum) == ema + RoundDiv(alphaNum * (v - ema), AlphaDen)

\* lines 434-439
EyeEma(e, unifiedEyeProb) ==
  IF ~IsFinite(e.emaEye1)
  THEN LET v == IF IsFinite(unifiedEyeProb) THEN unifiedEyeProb ELSE SCALE
       IN  [e EXCEPT !.emaEye1 = v, !.emaEye5 = v]
  ELSE LET v == IF IsFinite(unifiedEyeProb) THEN unifiedEyeProb ELSE e.emaEye1
       IN  [e EXCEPT !.emaEye1 = EmaStep(e.emaEye1, v, AlphaEye1),
                     !.emaEye5 = IF e.emaEye5 = NaN THEN NaN
                                 ELSE EmaStep(e.emaEye5, v, AlphaEye5)]

\* PruneRuns that never removes a run
PruneRuns_None(runs, cut) == runs

\* while(runs.length && runs[0].tEnd < cut) runs.shift()
RECURSIVE PruneRuns(_, _)
PruneRuns(runs, cut) ==
  IF runs # <<>> /\ runs[1].tEnd < cut THEN PruneRuns(Tail(runs), cut) ELSE runs

\* IsBlinkLen with the upper end excluded
IsBlinkLen_Excl(lenF) == lenF >= BLINK_MIN_F /\ lenF < BLINK_MAX_F

\* line 453
IsBlinkLen(lenF) == lenF >= BLINK_MIN_F /\ lenF <= BLINK_MAX_F

\* DebounceCloses with a single closed frame enough
DebounceCloses_Once(closedDebounced, on) == ~closedDebounced /\ on >= 1

\* line 444: the debounced state turns closed
DebounceCloses(closedDebounced, on) == ~closedDebounced /\ on >= EYE_DEBOUNCE_ON_F

\* DebounceOpens with a single open frame enough
DebounceOpens_Once(closedDebounced, off) == closedDebounced /\ off >= 1

\* line 449: the debounced state turns open
DebounceOpens(closedDebounced, off) == closedDebounced /\ off >= EYE_DEBOUNCE_OFF_F

\* lines 442-458: the debounce counters, the closed->open run and its blink
EyeDebounce(e, eyeClosedRaw, nowSec) ==
  IF eyeClosedRaw = 1
  THEN LET on == e.eyeDebOn + 1 IN
       IF DebounceCloses(e.eyeClosedDebounced, on)
       THEN [e EXCEPT !.eyeDebOn = on, !.eyeDebOff = 0,
                      !.eyeClosedDebounced = TRUE, !.eyeRunLenFrames = 0]
       ELSE [e EXCEPT !.eyeDebOn = on, !.eyeDebOff = 0]
  ELSE LET off == e.eyeDebOff + 1 IN
       IF DebounceOpens(e.eyeClosedDebounced, off)
       THEN LET lenF == e.eyeRunLenFrames
                runs == PruneRuns(Append(e.eyeRuns,
                                         [tEnd |-> nowSec, lenFrames |-> lenF,
                                          durS |-> lenF * DT]),
                                  nowSec - 30 * TARGET_FPS)
                e1 == [e EXCEPT !.eyeDebOff = off, !.eyeDebOn = 0, !.eyeRuns = runs,
                                !.eyeClosedDebounced = FALSE, !.eyeRunLenFrames = 0]
            IN  IF IsBlinkLen(lenF)
                THEN [e1 EXCEPT !.lastBlinkEndTime = nowSec, !.hasSeenBlink = 1,
                                !.blinkPulse = 1]
                ELSE e1
       ELSE [e EXCEPT !.eyeDebOff = off, !.eyeDebOn = 0]

\* line 459
EyeRunCount(e) ==
  IF e.eyeClosedDebounced THEN [e EXCEPT !.eyeRunLenFrames = e.eyeRunLenFrames + 1] ELSE e

\* EyeProlonged that keeps the episode when the eye opens
EyeProlonged_Sticky(e, featLen) ==
  IF /\ e.eyeClosedDebounced /\ ~e.prolongedEyeActive
     /\ e.eyeRunLenFrames >= FRM_2P5S
     /\ (featLen - e.lastProlongStartFrame) >= BLINK_LOCK_FRM
  THEN [e EXCEPT !.prolongedEyeActive = TRUE, !.lastProlongStartFrame = featLen]
  ELSE e

\* lines 461-467; featLen is featBuf.length
EyeProlonged(e, featLen) ==
  IF e.eyeClosedDebounced
  THEN IF /\ ~e.prolongedEyeActive
          /\ e.eyeRunLenFrames >= FRM_2P5S
          /\ (featLen - e.lastProlongStartFrame) >= BLINK_LOCK_FRM
       THEN [e EXCEPT !.prolongedEyeActive = TRUE, !.lastProlongStartFrame = featLen]
       ELSE e
  ELSE [e EXCEPT !.prolongedEyeActive = FALSE]

\* line 470, read before the decrement of line 471
BlinkState(e) == IF e.blinkPulse > 0 /\ ~e.eyeClosedDebounced THEN 1 ELSE 0

BlinkPulseDec(e) == IF e.blinkPulse > 0 THEN [e EXCEPT !.blinkPulse = e.blinkPulse - 1] ELSE e

\* lines 473-481: the statistics over the recorded runs
RECURSIVE Blinks30(_, _)
Blinks30(runs, cut30) ==
  IF runs = <<>> THEN 0
  ELSE (IF runs[1].tEnd >= cut30 /\ IsBlinkLen(runs[1].lenFrames) THEN 1 ELSE 0)
       + Blinks30(Tail(runs), cut30)

RECURSIVE MaxCloseRun10(_, _)
MaxCloseRun10(runs, cut10) ==
  IF runs = <<>> THEN 0
  ELSE LET rest == MaxCloseRun10(Tail(runs), cut10) IN
       IF runs[1].tEnd >= cut10 /\ runs[1].durS > rest THEN runs[1].durS ELSE rest

\* TimeSince without the cap
TimeSince_NoCap(nowSec, last) == Max(0, Sec(nowSec - last))

\* Math.min(Math.max(0, tNowSec - last), TS_MAX), clock units in, seconds out
TimeSince(nowSec, last) == Min(Max(0, Sec(nowSec - last)), TS_MAX * SCALE)

(* ----------------------------- mouth pipeline --------------------------- *)
\* lines 489-490
YawnEma(yawnEma1, yawnProb) ==
  IF ~IsFinite(yawnEma1)
  THEN (IF IsFinite(yawnProb) THEN yawnProb ELSE 0)
  ELSE EmaStep(yawnEma1, IF IsFinite(yawnProb) THEN yawnProb ELSE yawnEma1, AlphaEye1)

\* MouthDurS counting one frame more
MouthDurS_Plus(frames) == (frames + 1) * DT

\* mouthRunFrames * DT, in fixed-point seconds
MouthDurS(frames) == frames * DT

\* lines 492-505: the open/closed hysteresis on the yawn EMA (m.yawnEma1 is
\* already this tick's value); first its two thresholds, lines 493 and 504
\* MouthCloses with the opening threshold: no dead band
MouthCloses_Single(yawnEma1) == Lt(yawnEma1, MOUTH_ON_T)

MouthCloses(yawnEma1) == Le(yawnEma1, MOUTH_OFF_T)

MouthOpens(yawnEma1) == Ge(yawnEma1, MOUTH_ON_T)

MouthHysteresis(m, tNowSec) ==
  IF m.mouthOpen
  THEN IF MouthCloses(m.yawnEma1)
       THEN LET durS == MouthDurS(m.mouthRunFrames)
                runs == PruneRuns(Append(m.mouthRuns, [tEnd |-> tNowSec, durS |-> durS]),
                                  tNowSec - 30 * TARGET_FPS)
                m1 == [m EXCEPT !.mouthRuns = runs, !.mouthOpen = FALSE,
                                !.mouthRunFrames = 0, !.yawnProlonged = FALSE]
            IN  IF durS >= MOUTH_PROLONG_S
                THEN [m1 EXCEPT !.yawnPulse = 1, !.lastYawnEndTime = tNowSec]
                ELSE m1
       ELSE LET fr == m.mouthRunFrames + 1 IN
            [m EXCEPT !.mouthRunFrames = fr,
                      !.yawnProlonged = IF ~m.yawnProlonged /\ MouthDurS(fr) >= MOUTH_PROLONG_S
                                        THEN TRUE ELSE m.yawnProlonged]
  ELSE IF MouthOpens(m.yawnEma1)
       THEN [m EXCEPT !.mouthOpen = TRUE, !.mouthRunFrames = 1, !.yawnProlonged = FALSE]
       ELSE m

\* line 510, read before the decrement of line 511
YawnEventState(m) == IF ~m.mouthOpen /\ m.yawnPulse > 0 THEN 1 ELSE 0

\* YawnPulseDec leaving the pulse armed
YawnPulseDec_Keep(m) == m

\* line 511
YawnPulseDec(m) == IF m.yawnPulse > 0 THEN [m EXCEPT !.yawnPulse = m.yawnPulse - 1] ELSE m

RECURSIVE MouthShort30(_, _)
MouthShort30(runs, cut30) ==
  IF runs = <<>> THEN 0
  ELSE (IF /\ runs[1].tEnd >= cut30
           /\ runs[1].durS >= MOUTH_SHORT_MIN_S
           /\ runs[1].durS <= MOUTH_SHORT_MAX_S THEN 1 ELSE 0)
       + MouthShort30(Tail(runs), cut30)

(* --------------------------------- nod ---------------------------------- *)
\* NodRule whose release does not look at the eye
NodRule_EyeBlind(nodActive, prolonged_eye_state, eyeClosed, yawDeg, pitchDeg, rollDeg) ==
  LET set == /\ prolonged_eye_state = 1
             /\ Le(pitchDeg, -4 * SCALE)
             /\ Le(Abs(rollDeg), 20 * SCALE)
             /\ Le(Abs(yawDeg), 10 * SCALE)
      n1 == IF set THEN TRUE ELSE nodActive
      clear == Gt(Abs(yawDeg), 10 * SCALE) \/ Ge(pitchDeg, -2 * SCALE)
  IN  IF clear THEN FALSE ELSE n1

\* NodRule releasing as soon as the pitch leaves the set band
NodRule_NoBand(nodActive, prolonged_eye_state, eyeClosed, yawDeg, pitchDeg, rollDeg) ==
  LET set == /\ prolonged_eye_state = 1
             /\ Le(pitchDeg, -4 * SCALE)
             /\ Le(Abs(rollDeg), 20 * SCALE)
             /\ Le(Abs(yawDeg), 10 * SCALE)
      n1 == IF set THEN TRUE ELSE nodActive
      clear == \/ ~eyeClosed
               \/ Gt(Abs(yawDeg), 10 * SCALE)
               \/ Gt(pitchDeg, -4 * SCALE)
  IN  IF clear THEN FALSE ELSE n1

\* lines 524-525: the set rule, then the release rule
NodRule(nodActive, prolonged_eye_state, eyeClosed, yawDeg, pitchDeg, rollDeg) ==
  LET set == /\ prolonged_eye_state = 1
             /\ Le(pitchDeg, -4 * SCALE)
             /\ Le(Abs(rollDeg), 20 * SCALE)
             /\ Le(Abs(yawDeg), 10 * SCALE)
      n1 == IF set THEN TRUE ELSE nodActive
      clear == \/ ~eyeClosed
               \/ Gt(Abs(yawDeg), 10 * SCALE)
               \/ Ge(pitchDeg, -2 * SCALE)
  IN  IF clear THEN FALSE ELSE n1

(* ------------------------ features, mu/sigma, window -------------------- *)
\* buildRawFeatures: the object of the 20 named values
buildRawFeatures(obj) ==
  [yaw_adj |-> obj.yawDeg, pitch_adj |-> obj.pitchDeg, roll_adj |-> obj.rollDeg,
   dyaw_adj_per_s |-> obj.dYaw, dpitch_adj_per_s |-> obj.dPitch,
   droll_adj_per_s |-> obj.dRoll,
   eye_open_unified |-> finiteOr(obj.eye_open_unified, SCALE \div 2),
   ema_eye_open_1s |-> finiteOr(obj.ema_eye_open_1s, SCALE \div 2),
   ema_eye_open_5s |-> finiteOr(obj.ema_eye_open_5s, SCALE \div 2),
   eye_open_trend_3s |-> finiteOr(obj.eye_open_trend_3s, 0),
   eye_close_dur_s |-> finiteOr(obj.eye_close_dur_s, 0),
   eye_run_len_frames |-> obj.eye_run_len_frames,
   perclos_30s |-> finiteOr(obj.perclos_30s, 0),
   blink_rate_30s |-> finiteOr(obj.blink_rate_30s, 0),
   max_close_run_10s |-> finiteOr(obj.max_close_run_10s, 0),
   time_since_last_blink_s |-> finiteOr(obj.time_since_last_blink_s, 0),
   yawn_prob_ema_1s |-> finiteOr(obj.yawn_prob_ema_1s, 0),
   mouth_open_run_s |-> finiteOr(obj.mouth_open_run_s, 0),
   mouth_open_rate_30s |-> finiteOr(obj.mouth_open_rate_30s, 0),
   time_since_last_yawn_s |-> finiteOr(obj.time_since_last_yawn_s, 0)]

\* rawToVector: the values in FEAT_ORDER
rawToVector(raw) == [i \in 1..F |-> raw[FEAT_ORDER[i]]]

\* baselineStats.mu / .sigma are <<>> when null
NoStats == [mu |-> <<>>, sigma |-> <<>>]

\* addNormSample(rawToVector(raw))
addNormSample(n, vec) ==
  [n EXCEPT !.baseSum = [i \in 1..F |-> Add(n.baseSum[i], vec[i])],
            !.baseSqSum = [i \in 1..F |-> Add(n.baseSqSum[i], MulFx(vec[i], vec[i]))],
            !.baseCnt = n.baseCnt + 1]

\* the statistics finalizeNorm computes from the sums (lines 186-188)
NormStats(n) ==
  LET m(i) == IF n.baseSum[i] = NaN THEN NaN ELSE RoundDiv(n.baseSum[i], n.baseCnt)
      ex2(i) == IF n.baseSqSum[i] = NaN THEN NaN ELSE RoundDiv(n.baseSqSum[i], n.baseCnt)
      raw(i) == Sub(ex2(i), MulFx(m(i), m(i)))
      \* Math.max(1e-6, x): 1e-6 is below the fixed-point resolution; NaN stays NaN
      v(i) == IF raw(i) = NaN THEN NaN ELSE Max(0, raw(i))
  IN  [mu |-> [i \in 1..F |-> m(i)],
       sigma |-> [i \in 1..F |-> IF v(i) = NaN THEN NaN ELSE Max(1, SqrtFx(v(i)))]]

\* finalizeNorm: <<return value, baselineStats, normSummary>> afterwards;
\* n.normMode is the flag as the function reads it
finalizeNorm(n, stats, summary) ==
  IF ~n.normMode THEN <<TRUE, stats, summary>>
  ELSE IF n.baseCnt < MIN_ACCEPTED THEN <<FALSE, stats, summary>>
  ELSE <<TRUE, NormStats(n), "ready">>

\* lines 554-562: <<norm accumulators, baselineStats, normSummary>> afterwards
NormCollect(n, stats, summary, vec, nowSec) ==
  IF ~n.normMode THEN <<n, stats, summary>>
  ELSE
    LET elapsed == nowSec - n.normT0
        n1 == addNormSample(n, vec)
    IN  IF elapsed >= NORM_SECONDS * TARGET_FPS
        THEN LET n2 == [n1 EXCEPT !.normMode = FALSE]
                 fin == finalizeNorm(n2, stats, summary)
             IN  <<n2, fin[2], IF ~fin[1] THEN "unstable" ELSE fin[3]>>
        ELSE <<n1, stats, summary>>

\* pushFrameFeatures: the row appended for raw
NormRow(raw, stats) ==
  [i \in 1..F |->
     LET v == raw[FEAT_ORDER[i]]
         mu == IF stats.mu = <<>> THEN 0 ELSE stats.mu[i]
         sg == IF stats.sigma = <<>> THEN SCALE ELSE stats.sigma[i]
         \* Math.max(1e-3, sigma); Math.max of a NaN is NaN
         s == IF sg = NaN THEN NaN ELSE Max(Max(1, SCALE \div 1000), sg)
     IN  DivFx(Sub(v, mu), s)]

\* PushRow dropping the newest row on overflow, as a stack would
PushRow_Stack(buf, row) ==
  LET b == Append(buf, row) IN IF Len(b) > TCN_WINDOW THEN SubSeq(b, 1, TCN_WINDOW) ELSE b

\* lines 246-247: featBuf.push(row); if(featBuf.length > TCN_WINDOW) featBuf.shift()
PushRow(buf, row) ==
  LET b == Append(buf, row) IN IF Len(b) > TCN_WINDOW THEN Tail(b) ELSE b

pushFrameFeatures(buf, raw, stats) == PushRow(buf, NormRow(raw, stats))

\* TcnHysteresis entering the drowsy state only above the threshold
TcnHysteresis_Strict(isDrowsy, prob) ==
  IF ~isDrowsy /\ Gt(prob, ON_THRESH) THEN TRUE
  ELSE IF isDrowsy /\ Le(prob, OFF_THRESH) THEN FALSE
  ELSE isDrowsy

\* lines 265-266: the hysteresis on the classifier output
TcnHysteresis(isDrowsy, prob) ==
  IF ~isDrowsy /\ Ge(prob, ON_THRESH) THEN TRUE
  ELSE IF isDrowsy /\ Le(prob, OFF_THRESH) THEN FALSE
  ELSE isDrowsy

\* NotReady one row early
NotReady_Early(len) == len < TCN_WINDOW - 1

\* line 254: the window is not full yet
NotReady(len) == len < TCN_WINDOW

\* tcnPredictIfReady: <<tcnIsDrowsy, tcnText, classifier invoked>> afterwards;
\* prob is what tcnModel.predict returns when it is called
tcnPredictIfReady(loaded, buf, stats, normEnabled, isDrowsy, text, prob) ==
  IF ~loaded THEN <<isDrowsy, [kind |-> "TCN not loaded", n |-> 0], FALSE>>
  ELSE IF NotReady(Len(buf))
  THEN <<isDrowsy,
         IF stats.mu # <<>> THEN [kind |-> "Warming", n |-> Len(buf)]
         ELSE IF normEnabled THEN [kind |-> "Awaiting", n |-> 0]
         ELSE [kind |-> "Warming", n |-> Len(buf)],
         FALSE>>
  ELSE LET d == TcnHysteresis(isDrowsy, prob)
       IN  <<d, [kind |-> IF d THEN "Drowsy" ELSE "Awake", n |-> prob], TRUE>>

(* -------------------------------- state --------------------------------- *)
VARIABLES
  tcnModel,             \* whether initTf loaded the classifier
  streamFlag,           \* camera granted
  normalizationEnabled,
  runningFlag,
  baselineCaptured,
  R0,                   \* the baseline calibrator's reference
  angleBufs, deltaEMA,  \* per-axis pose history and rate EMA
  norm,                 \* normMode, normT0, baseCnt, baseSum, baseSqSum
  baselineStats,        \* mu, sigma
  normSummary,          \* the status shown in #normSummary
  featBuf, tcnIsDrowsy, tcnText,
  eye,                  \* the eye state machine's variables
  rbEyeClosed,          \* Ring(PER_30S)
  mouth,                \* the mouth state machine's variables
  nodActive,
  now,                  \* performance.now()/1000, in units of DT
  out,                  \* the values the last processed frame computed
  hist,                 \* history of the session, for the properties only
  env,                  \* the input script of a scenario
  lastProcessT,         \* the clock when loop last sent a frame
  rafId,                \* "null", or the state of the callback it designates
  rafOther,             \* scheduled loop callbacks that rafId no longer designates
  sending               \* loop invocations suspended at await faceMesh.send

vars == << tcnModel, streamFlag, normalizationEnabled, runningFlag, baselineCaptured,
           R0, angleBufs, deltaEMA, norm, baselineStats, normSummary,
           featBuf, tcnIsDrowsy, tcnText, eye, rbEyeClosed, mouth, nodActive,
           now, out, hist, env, lastProcessT, rafId, rafOther, sending >>

loopVars == << lastProcessT, rafId, rafOther, sending >>

Axes == {"yaw", "pitch", "roll"}

EyeInit ==
  [eyeClosedDebounced |-> FALSE, eyeDebOn |-> 0, eyeDebOff |-> 0, eyeRunLenFrames |-> 0,
   prolongedEyeActive |-> FALSE, lastProlongStartFrame |-> NEVER_FRAME, blinkPulse |-> 0,
   eyeRuns |-> <<>>, lastBlinkEndTime |-> 0, hasSeenBlink |-> 0,
   emaEye1 |-> NaN, emaEye5 |-> NaN]

MouthInit ==
  [yawnEma1 |-> NaN, mouthOpen |-> FALSE, mouthRunFrames |-> 0, yawnProlonged |-> FALSE,
   mouthRuns |-> <<>>, yawnPulse |-> 0, lastYawnEndTime |-> 0]

NormInit ==
  [normMode |-> FALSE, normT0 |-> 0, baseCnt |-> 0, baseSum |-> Zeros(F), baseSqSum |-> Zeros(F)]

OutInit ==
  [eyeClosedRaw |-> 0, blink_state |-> 0, prolonged_eye_state |-> 0,
   mouth_open_state |-> 0, yawn_prolonged_state |-> 0, yawn_event_state |-> 0,
   rawFeat |-> [n \in {FEAT_ORDER[i] : i \in 1..F} |-> 0], invoked |-> FALSE, prob |-> 0]

\* hist: what the session did so far.  ticks counts the processed frames;
\* pushed, eyeProbs: the rows appended and the unified eye probabilities seen;
\* probs, drowsy: the classifier's outputs and the flag after each;
\* eyeRunsRec: the eye runs recorded; debTicks: for how many frames in a row the
\* debounced state has been closed; normAtStart: normalizationEnabled when the
\* session was started; prolongStartTick: the frame on which the last
\* prolonged closure became active, 0 if none; pre: the state before the last
\* frame.
PreOf(e, m, d, nod, len, dbt) ==
  [eye |-> e, mouth |-> m, tcnIsDrowsy |-> d, nodActive |-> nod, featLen |-> len,
   debTicks |-> dbt]

HistInit ==
  [ticks |-> 0, pushed |-> <<>>, eyeProbs |-> <<>>, probs |-> <<>>, drowsy |-> <<>>,
   eyeRunsRec |-> <<>>, mouthRunsRec |-> 0, yawnPulses |-> 0, debTicks |-> 0,
   normAtStart |-> FALSE, prolongStartTick |-> 0,
   pre |-> PreOf(EyeInit, MouthInit, FALSE, FALSE, 0, 0)]

\* the page after its script ran and the boot block finished
Init0 ==
  /\ streamFlag = FALSE
  /\ normalizationEnabled = FALSE
  /\ runningFlag = FALSE
  /\ baselineCaptured = FALSE
  /\ R0 = NoBaseline
  /\ angleBufs = [a \in Axes |-> <<>>]
  /\ deltaEMA = [a \in Axes |-> 0]
  /\ norm = NormInit
  /\ baselineStats = NoStats
  /\ normSummary = "disabled"
  /\ featBuf = <<>>
  /\ tcnIsDrowsy = FALSE
  /\ tcnText = [kind |-> "-", n |-> 0]
  /\ eye = EyeInit
  /\ rbEyeClosed = RingNew(PER_30S)
  /\ mouth = MouthInit
  /\ nodActive = FALSE
  /\ out = OutInit
  /\ hist = HistInit
  /\ lastProcessT = 0
  /\ rafId = "null"
  /\ rafOther = 0
  /\ sending = 0

(* ------------------------------- operations ---------------------------- *)
\* resetNorm: <<norm, normSummary>> afterwards
resetNorm(n, enabled, summary, t) ==
  IF ~enabled THEN <<[n EXCEPT !.normMode = FALSE], "disabled">>
  ELSE <<[normMode |-> TRUE, normT0 |-> t, baseCnt |-> 0,
          baseSum |-> Zeros(F), baseSqSum |-> Zeros(F)], "collecting">>

\* CaptureBaseline taking a new reference on every frame
CaptureBaseline_Always(captured, ref, pre) == pre

\* lines 356-361: the reference is taken from the first frame of a session
CaptureBaseline(captured, ref, pre) == IF ~captured THEN pre ELSE ref

\* What one faceMesh.onResults callback computes when the session runs and a
\* face is found (lines 345-579), from the state before it and its inputs:
\*   in.pose  the Euler angles of the landmarks' axes, <<yaw, pitch, roll>>
\*   in.eyes  <<eyeLProb, eyeRProb>>, or <<>> when an eye crop is missing
\*   in.yawn  the yawn model's output, NaN when the mouth crop is missing
\*   in.prob  the classifier's output, read only if it is invoked
\* nowSec is the clock at the callback.
Frame(in, nowSec) ==
  LET adj == IF baseline_has(R0) THEN baseline_applyIfReady(R0, in.pose) ELSE in.pose
      yawDeg == adj[1]
      pitchDeg == adj[2]
      rollDeg == adj[3]
      \* initial baseline snapshot
      first == ~baselineCaptured
      rn == IF first THEN resetNorm(norm, normalizationEnabled, normSummary, nowSec)
            ELSE <<norm, normSummary>>
      angle == [a \in Axes |-> IF a = "yaw" THEN yawDeg
                               ELSE IF a = "pitch" THEN pitchDeg ELSE rollDeg]
      bufs == [a \in Axes |-> SmoothBuf(angleBufs[a], angle[a])]
      dema == [a \in Axes |-> SmoothEMA(deltaEMA[a], SmoothD(bufs[a]))]
      \* eye pipeline
      unifiedEyeProb == UnifiedEyeProb(in.eyes, yawDeg)
      eyeClosedRaw == EyeClosedRaw(unifiedEyeProb)
      ring == RingPush(rbEyeClosed, eyeClosedRaw)
      e1 == EyeEma(eye, unifiedEyeProb)
      e2 == EyeDebounce(e1, eyeClosedRaw, nowSec)
      e3 == EyeRunCount(e2)
      e4 == EyeProlonged(e3, Len(featBuf))
      prolonged_eye_state == IF e4.prolongedEyeActive THEN 1 ELSE 0
      blink_state == BlinkState(e4)
      e5 == BlinkPulseDec(e4)
      cut10 == nowSec - 10 * TARGET_FPS
      cut30 == nowSec - 30 * TARGET_FPS
      \* mouth pipeline
      m1 == [mouth EXCEPT !.yawnEma1 = YawnEma(mouth.yawnEma1, in.yawn)]
      m2 == MouthHysteresis(m1, nowSec)
      yawn_event_state == YawnEventState(m2)
      m3 == YawnPulseDec(m2)
      nod == NodRule(nodActive, prolonged_eye_state, eyeClosedRaw = 1,
                     yawDeg, pitchDeg, rollDeg)
      rawFeat == buildRawFeatures(
        [yawDeg |-> yawDeg, pitchDeg |-> pitchDeg, rollDeg |-> rollDeg,
         dYaw |-> dema["yaw"], dPitch |-> dema["pitch"], dRoll |-> dema["roll"],
         eye_open_unified |-> unifiedEyeProb,
         ema_eye_open_1s |-> e5.emaEye1,
         ema_eye_open_5s |-> e5.emaEye5,
         eye_open_trend_3s |-> Sub(e5.emaEye1, e5.emaEye5),
         eye_close_dur_s |-> IF e5.eyeClosedDebounced THEN e5.eyeRunLenFrames * DT ELSE 0,
         eye_run_len_frames |-> e5.eyeRunLenFrames * SCALE,
         perclos_30s |-> RingMean(ring),
         blink_rate_30s |-> RoundDiv(Blinks30(e5.eyeRuns, cut30) * SCALE, 30),
         max_close_run_10s |-> MaxCloseRun10(e5.eyeRuns, cut10),
         time_since_last_blink_s |-> TimeSince(nowSec, e5.lastBlinkEndTime),
         yawn_prob_ema_1s |-> m3.yawnEma1,
         mouth_open_run_s |-> IF m3.mouthOpen THEN MouthDurS(m3.mouthRunFrames) ELSE 0,
         mouth_open_rate_30s |-> RoundDiv(MouthShort30(m3.mouthRuns, cut30) * SCALE, 30),
         time_since_last_yawn_s |-> TimeSince(nowSec, m3.lastYawnEndTime)])
      nc == NormCollect(rn[1], baselineStats, rn[2], rawToVector(rawFeat), nowSec)
      buf == pushFrameFeatures(featBuf, rawFeat, nc[2])
      tp == tcnPredictIfReady(tcnModel, buf, nc[2], normalizationEnabled,
                              tcnIsDrowsy, tcnText, in.prob)
      \* a run was appended by this callback: it carries this callback's time
      eyeRunRec == e2.eyeRuns # <<>> /\ e2.eyeRuns[Len(e2.eyeRuns)].tEnd = nowSec
      mouthRunRec == m2.mouthRuns # <<>> /\ m2.mouthRuns[Len(m2.mouthRuns)].tEnd = nowSec
  IN  [R0 |-> CaptureBaseline(baselineCaptured, R0, in.pose),
       angleBufs |-> bufs, deltaEMA |-> dema,
       norm |-> nc[1], baselineStats |-> nc[2], normSummary |-> nc[3],
       featBuf |-> buf, tcnIsDrowsy |-> tp[1], tcnText |-> tp[2],
       eye |-> e5, rbEyeClosed |-> ring, mouth |-> m3, nodActive |-> nod,
       out |-> [eyeClosedRaw |-> eyeClosedRaw, blink_state |-> blink_state,
                prolonged_eye_state |-> prolonged_eye_state,
                mouth_open_state |-> IF m3.mouthOpen THEN 1 ELSE 0,
                yawn_prolonged_state |-> IF m3.yawnProlonged THEN 1 ELSE 0,
                yawn_event_state |-> yawn_event_state,
                rawFeat |-> rawFeat, invoked |-> tp[3], prob |-> IF tp[3] THEN in.prob ELSE 0],
       hist |-> [hist EXCEPT
                   !.ticks = hist.ticks + 1,
                   !.pushed = Append(hist.pushed, NormRow(rawFeat, nc[2])),
                   !.eyeProbs = Append(hist.eyeProbs, unifiedEyeProb),
                   !.debTicks = IF e5.eyeClosedDebounced THEN hist.debTicks + 1 ELSE 0,
                   !.pre = PreOf(eye, mouth, tcnIsDrowsy, nodActive, Len(featBuf),
                                 hist.debTicks),
                   !.probs = IF tp[3] THEN Append(hist.probs, in.prob) ELSE hist.probs,
                   !.drowsy = IF tp[3] THEN Append(hist.drowsy, tp[1]) ELSE hist.drowsy,
                   !.eyeRunsRec = IF eyeRunRec
                                  THEN Append(hist.eyeRunsRec,
                                              [lenFrames |-> e2.eyeRuns[Len(e2.eyeRuns)].lenFrames,
                                               tick |-> hist.ticks + 1,
                                               blink |-> e2.blinkPulse > 0])
                                  ELSE hist.eyeRunsRec,
                   !.mouthRunsRec = hist.mouthRunsRec + (IF mouthRunRec THEN 1 ELSE 0),
                   !.yawnPulses = hist.yawnPulses + yawn_event_state,
                   !.prolongStartTick = IF ~eye.prolongedEyeActive /\ e5.prolongedEyeActive
                                        THEN hist.ticks + 1 ELSE hist.prolongStartTick]]

\* the assignments of one faceMesh.onResults callback that runs at clock t
ApplyFrame(in, t) ==
  \E f \in {Frame(in, t)} :
       /\ now' = t
       /\ baselineCaptured' = TRUE
       /\ R0' = f.R0
       /\ angleBufs' = f.angleBufs
       /\ deltaEMA' = f.deltaEMA
       /\ norm' = f.norm
       /\ baselineStats' = f.baselineStats
       /\ normSummary' = f.normSummary
       /\ featBuf' = f.featBuf
       /\ tcnIsDrowsy' = f.tcnIsDrowsy
       /\ tcnText' = f.tcnText
       /\ eye' = f.eye
       /\ rbEyeClosed' = f.rbEyeClosed
       /\ mouth' = f.mouth
       /\ nodActive' = f.nodActive
       /\ out' = f.out
       /\ hist' = f.hist

\* faceMesh.onResults with the session running and a face in the frame, dt
\* clock units after the previous event
OnResults(in, dt) ==
  /\ runningFlag
  /\ ApplyFrame(in, now + dt)
  /\ UNCHANGED << tcnModel, streamFlag, normalizationEnabled, runningFlag, env >>
  /\ UNCHANGED loopVars

\* requestCamera, when getUserMedia succeeds
RequestCamera ==
  /\ ~streamFlag
  /\ streamFlag' = TRUE
  /\ UNCHANGED << tcnModel, normalizationEnabled, runningFlag, baselineCaptured,
                  R0, angleBufs, deltaEMA, norm, baselineStats, normSummary,
                  featBuf, tcnIsDrowsy, tcnText, eye, rbEyeClosed, mouth, nodActive,
                  now, out, hist, env >>
  /\ UNCHANGED loopVars

\* window.TCN.setNormalizationEnabled(enabled)
SetNormalizationEnabled(enabled) ==
  /\ normalizationEnabled' = enabled
  /\ normSummary' = IF enabled THEN "will collect" ELSE "disabled"
  /\ UNCHANGED << tcnModel, streamFlag, runningFlag, baselineCaptured,
                  R0, angleBufs, deltaEMA, norm, baselineStats,
                  featBuf, tcnIsDrowsy, tcnText, eye, rbEyeClosed, mouth, nodActive,
                  now, out, hist, env >>
  /\ UNCHANGED loopVars

\* FRAME_INTERVAL_MS, in clock units
FRAME_INTERVAL == SCALE \div (TARGET_FPS * DT)

\* rafId = requestAnimationFrame(loop): <<rafId, rafOther>> afterwards; the
\* callback rafId designated, if still scheduled, stays scheduled
RequestFrame(id, other) == << "pending", other + (IF id = "pending" THEN 1 ELSE 0) >>

\* loop(), from its call to its first await or its return, at clock t:
\* <<lastProcessT, rafId, rafOther, sending>> afterwards
LoopRun(running, t, last, id, other, snd) ==
  IF ~running THEN << last, id, other, snd >>
  ELSE IF t - last >= FRAME_INTERVAL
  THEN << t, id, other, snd + 1 >>
  ELSE << last, RequestFrame(id, other)[1], RequestFrame(id, other)[2], snd >>

\* startProcessing: the reset of lines 604-618, then the call of loop()
StartProcessing ==
  /\ streamFlag
  /\ runningFlag' = TRUE
  /\ baselineCaptured' = FALSE
  /\ eye' = EyeInit
  /\ rbEyeClosed' = RingReset(rbEyeClosed)
  /\ mouth' = MouthInit
  /\ nodActive' = FALSE
  /\ R0' = NoBaseline
  /\ featBuf' = <<>>
  /\ tcnIsDrowsy' = FALSE
  /\ tcnText' = [kind |-> "-", n |-> 0]
  /\ hist' = [HistInit EXCEPT !.normAtStart = normalizationEnabled]
  /\ out' = OutInit
  /\ \E l \in {LoopRun(TRUE, now, lastProcessT, rafId, rafOther, sending)} :
       /\ lastProcessT' = l[1]
       /\ rafId' = l[2]
       /\ rafOther' = l[3]
       /\ sending' = l[4]
  /\ UNCHANGED << tcnModel, streamFlag, normalizationEnabled, angleBufs, deltaEMA,
                  norm, baselineStats, normSummary, now, env >>

\* stopProcessing
StopProcessing ==
  /\ runningFlag' = FALSE
  /\ rafId' = IF rafId = "pending" THEN "done" ELSE rafId
  /\ UNCHANGED << lastProcessT, rafOther, sending >>
  /\ UNCHANGED << tcnModel, streamFlag, normalizationEnabled, baselineCaptured,
                  R0, angleBufs, deltaEMA, norm, baselineStats, normSummary,
                  featBuf, tcnIsDrowsy, tcnText, eye, rbEyeClosed, mouth, nodActive,
                  now, out, hist, env >>

\* the variables a faceMesh.onResults callback assigns, the clock apart
frameVars == << baselineCaptured, R0, angleBufs, deltaEMA, norm, baselineStats,
                normSummary, featBuf, tcnIsDrowsy, tcnText, eye, rbEyeClosed, mouth,
                nodActive, out, hist >>

\* a callback scheduled by requestAnimationFrame runs loop(); designated tells
\* whether it is the callback rafId designates
AnimationFrame(designated) ==
  /\ IF designated THEN rafId = "pending" ELSE rafOther > 0
  /\ \E l \in {LoopRun(runningFlag, now, lastProcessT,
                       IF designated THEN "done" ELSE rafId,
                       IF designated THEN rafOther ELSE rafOther - 1, sending)} :
       /\ lastProcessT' = l[1]
       /\ rafId' = l[2]
       /\ rafOther' = l[3]
       /\ sending' = l[4]
  /\ UNCHANGED << tcnModel, streamFlag, normalizationEnabled, runningFlag, now, env >>
  /\ UNCHANGED frameVars

\* Processes that ignores the running flag
Processes_Stopped(running, in) == in # <<>>

\* lines 340-343: the callback goes on only while the session runs and a face
\* was found; in is <<>> when res.multiFaceLandmarks holds no face
Processes(running, in) == running /\ in # <<>>

\* a faceMesh.send completes: the results callback runs (to its end, no crop
\* preview being drawn), on a face when in is a record and on none when in is
\* <<>>, and the loop invocation that awaited the send goes on to line 639
SendCompletes(in) ==
  /\ sending > 0
  /\ IF Processes(runningFlag, in)
     THEN ApplyFrame(in, now)
     ELSE UNCHANGED frameVars /\ UNCHANGED now
  /\ sending' = sending - 1
  /\ rafId' = RequestFrame(rafId, rafOther)[1]
  /\ rafOther' = RequestFrame(rafId, rafOther)[2]
  /\ UNCHANGED << tcnModel, streamFlag, normalizationEnabled, runningFlag, env,
                  lastProcessT >>

\* performance.now() advances by one frame interval between two events
ClockAdvances ==
  /\ now' = now + 1
  /\ UNCHANGED << tcnModel, streamFlag, normalizationEnabled, runningFlag, env >>
  /\ UNCHANGED frameVars
  /\ UNCHANGED loopVars

(* ----------------------------- specifications -------------------------- *)
\* inputs held fixed where a specification does not vary them
Pose0 == <<0, 0, 0>>
EyesOpen == <<Pct(90), Pct(90)>>
EyesClosed == <<Pct(20), Pct(20)>>
YawnLow == Pct(10)

Init == Init0 /\ tcnModel = TRUE /\ now = 0 /\ env = 0

\* the session is brought up: camera, then Start
BringUp == RequestCamera \/ (~runningFlag /\ StartProcessing)

\* --- the eye state machine under every short sequence of eye inputs
MaxEyeTicks == 9

EyeInputs == { EyesClosed, <<Pct(40), Pct(40)>>, <<>> }

TickEye ==
  /\ hist.ticks < MaxEyeTicks
  /\ \E e \in EyeInputs :
       OnResults([pose |-> Pose0, eyes |-> e, yawn |-> YawnLow, prob |-> 0], 1)

NextEye == BringUp \/ TickEye

SpecEye == Init /\ [][NextEye]_vars

\* --- the blink scenario: env frames with the eyes closed (0.2), then
\* OpenTicks frames with the eyes open (0.9), one frame every DT; the page
\* has been open for 0 s or for longer than TS_MAX when the session starts
MaxClosedTicks == 7
OpenTicks == 60
LateStart == (TS_MAX + 10) * TARGET_FPS

InitBlink ==
  Init0 /\ tcnModel = TRUE /\ now \in {0, LateStart} /\ env \in 1..MaxClosedTicks

TickBlink ==
  /\ hist.ticks < env + OpenTicks
  /\ OnResults([pose |-> Pose0,
                eyes |-> IF hist.ticks < env THEN EyesClosed ELSE EyesOpen,
                yawn |-> YawnLow, prob |-> 0], 1)

NextBlink == BringUp \/ TickBlink

SpecBlink == InitBlink /\ [][NextBlink]_vars

\* --- the mouth state machine under every short sequence of yawn outputs
MaxMouthTicks == 6

YawnInputs == { 0, Pct(46), Pct(54), Pct(55), SCALE }

TickMouth ==
  /\ hist.ticks < MaxMouthTicks
  /\ \E y \in YawnInputs :
       OnResults([pose |-> Pose0, eyes |-> EyesOpen, yawn |-> y, prob |-> 0], 1)

NextMouth == BringUp \/ TickMouth

SpecMouth == Init /\ [][NextMouth]_vars

\* --- the yawn scenario: the yawn output is 0.60 for HoldTicks frames, so the
\* EMA is held at 0.60, and then is env for up to MaxAfterDrop frames.  env is
\* 0.40 or 0 (the EMA then decays through the closing threshold), or the
\* output that takes the EMA from 0.60 to 0.40 in one step, which the code,
\* clamping nothing, accepts: YawnDropTo40 = 0.60 - 0.20 / alpha.
HoldTicks == 100
MaxAfterDrop == 25
YawnDropTo40 == Pct(60) - RoundDiv((Pct(60) - Pct(40)) * AlphaDen, AlphaEye1)

InitYawn ==
  Init0 /\ tcnModel = TRUE /\ now = 0 /\ env \in { YawnDropTo40, 0, Pct(40) }

TickYawn ==
  /\ hist.ticks < HoldTicks + MaxAfterDrop
  /\ OnResults([pose |-> Pose0, eyes |-> EyesOpen,
                yawn |-> IF hist.ticks < HoldTicks THEN Pct(60)
                         ELSE IF hist.ticks = HoldTicks THEN env
                         ELSE Max(env, Pct(40)),
                prob |-> 0], 1)

NextYawn == BringUp \/ TickYawn

SpecYawn == InitYawn /\ [][NextYawn]_vars

\* --- PERCLOS over more frames than the ring holds: up to the ring's capacity
\* the eyes are closed on env frames out of every env + 1, after it on any
\* frame
MaxPattern == 3
MaxOverflow == 6

InitPerclos == Init0 /\ tcnModel = TRUE /\ now = 0 /\ env \in 1..MaxPattern

TickPerclos ==
  /\ hist.ticks < PER_30S + MaxOverflow
  /\ \E e \in IF hist.ticks < PER_30S
              THEN { IF hist.ticks % (env + 1) < env THEN EyesClosed ELSE EyesOpen }
              ELSE { EyesClosed, EyesOpen } :
       OnResults([pose |-> Pose0, eyes |-> e, yawn |-> YawnLow, prob |-> 0], 1)

NextPerclos == BringUp \/ TickPerclos

SpecPerclos == InitPerclos /\ [][NextPerclos]_vars

\* --- a session with mu/sigma collection enabled before Start, one frame
\* every env clock units (every DT, or every 3 DT when frames are dropped)
MaxGap == 3
MaxNormTicks == 155

InitNorm == Init0 /\ tcnModel = TRUE /\ now = 0 /\ env \in {1, MaxGap}

EnableNorm ==
  /\ ~runningFlag /\ ~normalizationEnabled /\ hist.ticks = 0
  /\ SetNormalizationEnabled(TRUE)

TickNorm ==
  /\ normalizationEnabled
  /\ hist.ticks < MaxNormTicks
  /\ OnResults([pose |-> Pose0, eyes |-> EyesOpen, yawn |-> YawnLow, prob |-> Pct(50)], env)

NextNorm == EnableNorm \/ RequestCamera \/ (~runningFlag /\ StartProcessing) \/ TickNorm

SpecNorm == InitNorm /\ [][NextNorm]_vars

\* --- the window and the classifier: TCN_WINDOW frames fill the window, then
\* the classifier, if it is loaded, answers any of TcnProbs on each frame
MaxInvoke == 5
TcnProbs == { Pct(50), Pct(55), Pct(60), Pct(65), Pct(70) }

InitTcn == Init0 /\ tcnModel \in BOOLEAN /\ now = 0 /\ env = 0

TickTcn ==
  /\ hist.ticks < TCN_WINDOW - 1 + MaxInvoke
  /\ \E p \in IF tcnModel /\ Len(featBuf) + 1 >= TCN_WINDOW THEN TcnProbs ELSE {0} :
       OnResults([pose |-> Pose0, eyes |-> EyesOpen, yawn |-> YawnLow, prob |-> p], 1)

NextTcn == EnableNorm \/ RequestCamera \/ (~runningFlag /\ StartProcessing) \/ TickTcn

SpecTcn == InitTcn /\ [][NextTcn]_vars

\* --- frames with missing or non-finite inputs: on each frame the landmarks
\* may give a NaN yaw, an eye crop may be missing or the eye model may answer
\* NaN, and the mouth crop may be missing
MaxFaultTicks == 3

FaultPoses == { Pose0, <<NaN, 0, 0>> }
FaultEyes == { EyesOpen, <<>>, <<NaN, Pct(90)>> }
FaultYawns == { YawnLow, NaN }

TickFault ==
  /\ hist.ticks < MaxFaultTicks
  /\ \E p \in FaultPoses, e \in FaultEyes, y \in FaultYawns :
       OnResults([pose |-> p, eyes |-> e, yawn |-> y, prob |-> 0], 1)

NextFault == BringUp \/ TickFault

SpecFault == Init /\ [][NextFault]_vars

\* --- sessions: Start, frames with one of two head poses, Stop, Start again,
\* with the normalization toggle flipped at any moment
MaxSessionClock == 4

PoseDown == <<3 * SCALE, -5 * SCALE, 0>>
SessionPoses == { Pose0, PoseDown }

TickSession ==
  /\ now < MaxSessionClock
  /\ \E p \in SessionPoses :
       OnResults([pose |-> p, eyes |-> EyesOpen, yawn |-> YawnLow, prob |-> 0], 1)

ToggleNorm == SetNormalizationEnabled(~normalizationEnabled)

NextSession ==
  \/ RequestCamera
  \/ (~runningFlag /\ StartProcessing)
  \/ (runningFlag /\ StopProcessing)
  \/ ToggleNorm
  \/ TickSession

SpecSession == Init /\ [][NextSession]_vars

\* --- the throttled loop: Start and Stop at any moment, animation frames,
\* completions of faceMesh.send with or without a face, and the clock
MaxLoopClock == 3
MaxLoopTicks == 2

TickLoop ==
  \E in \in { <<>>, [pose |-> Pose0, eyes |-> EyesOpen, yawn |-> YawnLow, prob |-> 0],
                    [pose |-> Pose0, eyes |-> EyesClosed, yawn |-> YawnLow, prob |-> 0] } :
    /\ in # <<>> => hist.ticks < MaxLoopTicks
    /\ SendCompletes(in)

NextLoop ==
  \/ RequestCamera
  \/ (~runningFlag /\ StartProcessing)
  \/ (runningFlag /\ StopProcessing)
  \/ AnimationFrame(TRUE)
  \/ AnimationFrame(FALSE)
  \/ TickLoop
  \/ (now < MaxLoopClock /\ ClockAdvances)

SpecLoop == Init /\ [][NextLoop]_vars

\* --- two long eye closures in one session: env open frames, then ClosedLen
\* closed frames, GapLen open frames and ClosedLen closed frames again
ClosedLen == 14
GapLen == 32
ProlongStarts == { 0, 60, 95 }

InitProlong == Init0 /\ tcnModel = TRUE /\ now = 0 /\ env \in ProlongStarts

ClosedInScript(k) ==
  LET j == k - env IN
  j >= 0 /\ (j < ClosedLen \/ (j >= ClosedLen + GapLen /\ j < 2 * ClosedLen + GapLen))

TickProlong ==
  /\ hist.ticks < env + 2 * ClosedLen + GapLen
  /\ OnResults([pose |-> Pose0,
                eyes |-> IF ClosedInScript(hist.ticks) THEN EyesClosed ELSE EyesOpen,
                yawn |-> YawnLow, prob |-> 0], 1)

NextProlong == BringUp \/ TickProlong

SpecProlong == InitProlong /\ [][NextProlong]_vars

\* --- the nod rule: NodWarm frames with the eyes closed and the head level
\* make the closure prolonged; then, on each frame, any of NodPoses with the
\* eyes closed or open
NodWarm == 13
MaxNodTicks == 4

NodPoses ==
  { <<0, -4 * SCALE, 20 * SCALE>>, <<0, -3 * SCALE, 0>>, <<0, -4 * SCALE, 21 * SCALE>>,
    <<11 * SCALE, -5 * SCALE, 0>>, <<0, -2 * SCALE, 0>> }

TickNod ==
  /\ hist.ticks < NodWarm + MaxNodTicks
  /\ \E p \in IF hist.ticks < NodWarm THEN { Pose0 } ELSE NodPoses,
        e \in IF hist.ticks < NodWarm THEN { EyesClosed } ELSE { EyesClosed, EyesOpen } :
       OnResults([pose |-> p, eyes |-> e, yawn |-> YawnLow, prob |-> 0], 1)

NextNod == BringUp \/ TickNod

SpecNod == Init /\ [][NextNod]_vars

\* --- one bad frame: frame FaultAt of the session carries one non-finite
\* input, named by env; every other frame has finite inputs
FaultAt == 2

HealFaults == { "yaw", "pitch", "roll", "eye", "mouth" }

InitHeal == Init0 /\ tcnModel = TRUE /\ now = 0 /\ env \in HealFaults

HealInput(k) ==
  LET bad == k = FaultAt IN
  [pose |-> [i \in 1..3 |->
               IF bad /\ env = <<"yaw", "pitch", "roll">>[i] THEN NaN ELSE Pose0[i]],
   eyes |-> IF bad /\ env = "eye" THEN <<NaN, NaN>> ELSE EyesOpen,
   yawn |-> IF bad /\ env = "mouth" THEN NaN ELSE YawnLow,
   prob |-> 0]

TickHeal ==
  /\ hist.ticks < FaultAt + PER_30S
  /\ OnResults(HealInput(hist.ticks + 1), 1)

NextHeal == BringUp \/ TickHeal

SpecHeal == InitHeal /\ [][NextHeal]_vars

\* --- two episodes more or less than 30 s apart: on the first frames of the
\* session and again from frame env + 1, the eyes close for EyeShut frames and
\* the mouth model answers 1.0 for YawnHold frames; all other frames are quiet
EyeShut == 3
YawnHold == 15
EpisodeTail == 45

PruneGaps == { 440, 470 }

InitPrune == Init0 /\ tcnModel = TRUE /\ now = 0 /\ env \in PruneGaps

\* the position of frame k inside an episode, 0 outside the episodes' starts
InEpisode(k, len) == (k >= 1 /\ k <= len) \/ (k >= env + 1 /\ k <= env + len)

TickPrune ==
  /\ hist.ticks < env + EpisodeTail
  /\ OnResults([pose |-> Pose0,
                eyes |-> IF InEpisode(hist.ticks + 1, EyeShut) THEN EyesClosed ELSE EyesOpen,
                yawn |-> IF InEpisode(hist.ticks + 1, YawnHold) THEN SCALE ELSE 0,
                prob |-> 0], 1)

NextPrune == BringUp \/ TickPrune

SpecPrune == InitPrune /\ [][NextPrune]_vars

\* --- mouth openings of every length around the prolonged threshold: the
\* mouth model answers 1.0 for env frames, then 0.0 for YawnTail frames
MaxYawnHold == 14
YawnTail == 20

InitYawnLen == Init0 /\ tcnModel = TRUE /\ now = 0 /\ env \in 1..MaxYawnHold

TickYawnLen ==
  /\ hist.ticks < env + YawnTail
  /\ OnResults([pose |-> Pose0, eyes |-> EyesOpen,
                yawn |-> IF hist.ticks < env THEN SCALE ELSE 0, prob |-> 0], 1)

NextYawnLen == BringUp \/ TickYawnLen

SpecYawnLen == InitYawnLen /\ [][NextYawnLen]_vars

(* -------------------------------- properties ---------------------------- *)
\* the last processed frame, as the properties read it
K == hist.ticks
Pre == hist.pre

\* raw-closed, as the specification states it: probability < 0.40
RawClosedAt(k) == hist.eyeProbs[k] # NaN /\ hist.eyeProbs[k] < Pct(40)

BecameClosed == ~Pre.eye.eyeClosedDebounced /\ eye.eyeClosedDebounced
BecameOpen == Pre.eye.eyeClosedDebounced /\ ~eye.eyeClosedDebounced

\* C4: eye debouncing.  The debounced-closed flag turns true only on the second
\* of two consecutive raw-closed frames, so a single raw-closed frame followed
\* by a raw-open one never sets it, and two or more consecutive raw-closed
\* frames always leave it true from the second on; symmetrically it turns false
\* only on the second of two consecutive raw-open frames, and is false after
\* any two consecutive raw-open frames.
C4_EyeDebounce ==
  K >= 1 =>
    /\ BecameClosed => (K >= 2 /\ RawClosedAt(K) /\ RawClosedAt(K - 1))
    /\ (K >= 2 /\ RawClosedAt(K) /\ RawClosedAt(K - 1)) => eye.eyeClosedDebounced
    /\ BecameOpen => (K >= 2 /\ ~RawClosedAt(K) /\ ~RawClosedAt(K - 1))
    /\ (K >= 2 /\ ~RawClosedAt(K) /\ ~RawClosedAt(K - 1)) => ~eye.eyeClosedDebounced

\* a lone closed frame did not close the eye; later two closed frames did, and
\* the closure has just ended on the second open frame
C4_Witness ==
  /\ K = 6
  /\ RawClosedAt(1) /\ ~RawClosedAt(2) /\ RawClosedAt(3) /\ RawClosedAt(4)
  /\ ~RawClosedAt(5) /\ ~RawClosedAt(6)
  /\ BecameOpen

RunRecordedNow ==
  hist.eyeRunsRec # <<>> /\ hist.eyeRunsRec[Len(hist.eyeRunsRec)].tick = K

LastRunRec == hist.eyeRunsRec[Len(hist.eyeRunsRec)]

\* C5: blink classification.  A run is recorded exactly on the frames where the
\* debounced state turns from closed to open, with the number of frames the
\* state was closed as its length; it is classified a blink (last-blink time
\* set to now, pulse armed) if and only if that length is in [2,6]; the blink
\* display state is 1 on the frame a blink is recorded and 0 on every other
\* frame, the next one included.
C5_BlinkClassification ==
  K >= 1 =>
    /\ BecameOpen <=> RunRecordedNow
    /\ RunRecordedNow =>
         /\ LastRunRec.lenFrames = Pre.debTicks
         /\ eye.eyeRuns[Len(eye.eyeRuns)] =
              [tEnd |-> now, lenFrames |-> Pre.debTicks, durS |-> Pre.debTicks * DT]
    /\ \A i \in 1..Len(hist.eyeRunsRec) :
         hist.eyeRunsRec[i].blink <=>
           (hist.eyeRunsRec[i].lenFrames >= 2 /\ hist.eyeRunsRec[i].lenFrames <= 6)
    /\ eye.lastBlinkEndTime =
         IF RunRecordedNow /\ LastRunRec.blink THEN now ELSE Pre.eye.lastBlinkEndTime
    /\ out.blink_state = IF RunRecordedNow /\ LastRunRec.blink THEN 1 ELSE 0

\* a run of the longest blink length has just been recorded as a blink
C5_Witness ==
  /\ RunRecordedNow /\ LastRunRec.lenFrames = 6 /\ LastRunRec.blink
  /\ out.blink_state = 1 /\ eye.lastBlinkEndTime = now

TimeSinceBlink == out.rawFeat.time_since_last_blink_s

\* C6: the end-to-end eye scenario.  With env closed frames (0.2), 2 <= env <= 6,
\* followed by open frames (0.9), one frame every 1/15 s: no run is recorded
\* before the second open frame; on that frame one run of env frames is
\* recorded as a blink, and it stays the only run; time_since_last_blink_s is
\* 0 on that frame and one frame duration more on each later frame; and on
\* every frame of the scenario, whatever env, it is within [0, 30] seconds.
C6_EyeScenario ==
  K >= 1 =>
    /\ TimeSinceBlink >= 0 /\ TimeSinceBlink <= 30 * SCALE
    /\ (env >= 2 /\ env <= 6) =>
         /\ K < env + 2 => hist.eyeRunsRec = <<>> /\ eye.eyeRuns = <<>>
         /\ K >= env + 2 =>
              /\ hist.eyeRunsRec = << [lenFrames |-> env, tick |-> env + 2, blink |-> TRUE] >>
              /\ Len(eye.eyeRuns) = 1 /\ eye.eyeRuns[1].lenFrames = env
              /\ TimeSinceBlink = (K - (env + 2)) * (SCALE \div 15)
         /\ out.blink_state = IF K = env + 2 THEN 1 ELSE 0

\* 3 closed frames and all the open frames have been processed, in a session
\* started more than 30 s after the page loaded
C6_Witness ==
  /\ env = 3 /\ K = env + OpenTicks /\ now = LateStart + K
  /\ Len(hist.eyeRunsRec) = 1 /\ hist.eyeRunsRec[1].blink
  /\ TimeSinceBlink = (OpenTicks - 2) * DT

InBand(v) == v > Pct(45) /\ v < Pct(55)

\* C7: the mouth hysteresis is dead-banded.  The mouth-open flag turns from
\* closed to open only on a frame whose yawn EMA is >= 0.55 and from open to
\* closed only on a frame whose yawn EMA is <= 0.45; on a frame whose EMA is
\* strictly between 0.45 and 0.55 it keeps the value it had.
C7_MouthDeadBand ==
  K >= 1 =>
    /\ (~Pre.mouth.mouthOpen /\ mouth.mouthOpen) => mouth.yawnEma1 >= Pct(55)
    /\ (Pre.mouth.mouthOpen /\ ~mouth.mouthOpen) => mouth.yawnEma1 <= Pct(45)
    /\ InBand(mouth.yawnEma1) => (mouth.mouthOpen <=> Pre.mouth.mouthOpen)

\* the mouth is open and stayed open over two frames whose EMA moved inside
\* the band
C7_Witness ==
  /\ K >= 3 /\ mouth.mouthOpen /\ Pre.mouth.mouthOpen
  /\ InBand(mouth.yawnEma1) /\ InBand(Pre.mouth.yawnEma1)
  /\ mouth.yawnEma1 > Pre.mouth.yawnEma1

ProlongReached(frames) == frames * SCALE >= 13 * (SCALE \div 10) * 15

\* C8: the end-to-end mouth scenario.  While the yawn EMA is held at 0.60 the
\* mouth is open, the open run counts the frames, and yawn_prolonged_state is
\* true exactly from the first frame whose accumulated duration (frames / 15 s)
\* is >= 1.3 s; it stays true until the close.  The mouth closes on the first
\* later frame whose EMA is <= 0.45, in particular on the frame the EMA drops
\* to 0.40: on that frame one run is recorded, the prolonged flag clears and
\* the yawn event pulse is 1; the pulse is 1 on no other frame.
C8_YawnScenario ==
  K >= 1 =>
    /\ K <= HoldTicks =>
         /\ mouth.yawnEma1 = Pct(60) /\ mouth.mouthOpen /\ mouth.mouthRunFrames = K
         /\ mouth.yawnProlonged <=> ProlongReached(K)
         /\ out.yawn_prolonged_state = IF ProlongReached(K) THEN 1 ELSE 0
         /\ out.yawn_event_state = 0 /\ hist.yawnPulses = 0 /\ hist.mouthRunsRec = 0
    /\ (K > HoldTicks /\ Pre.mouth.mouthOpen /\ mouth.yawnEma1 > Pct(45)) =>
         /\ mouth.mouthOpen /\ mouth.yawnProlonged /\ out.yawn_prolonged_state = 1
         /\ out.yawn_event_state = 0 /\ hist.yawnPulses = 0 /\ hist.mouthRunsRec = 0
    /\ (K > HoldTicks /\ Pre.mouth.mouthOpen /\ mouth.yawnEma1 <= Pct(45)) =>
         /\ ~mouth.mouthOpen /\ ~mouth.yawnProlonged /\ out.yawn_prolonged_state = 0
         /\ out.yawn_event_state = 1 /\ hist.yawnPulses = 1 /\ hist.mouthRunsRec = 1
         /\ Len(mouth.mouthRuns) = 1 /\ mouth.mouthRuns[1].tEnd = now
         /\ mouth.lastYawnEndTime = now
    /\ (K > HoldTicks /\ ~Pre.mouth.mouthOpen) =>
         /\ ~mouth.mouthOpen /\ ~mouth.yawnProlonged
         /\ out.yawn_event_state = 0 /\ hist.yawnPulses = 1 /\ hist.mouthRunsRec = 1
    /\ (K = HoldTicks + 1 /\ mouth.yawnEma1 = Pct(40)) =>
         ~mouth.mouthOpen /\ out.yawn_event_state = 1

\* the EMA dropped from 0.60 to 0.40 some frames ago: the mouth closed then,
\* and the one pulse is over
C8_Witness ==
  /\ K = HoldTicks + 3 /\ mouth.yawnEma1 = Pct(40) /\ env = YawnDropTo40
  /\ ~mouth.mouthOpen /\ out.yawn_event_state = 0
  /\ hist.yawnPulses = 1 /\ hist.mouthRunsRec = 1
  /\ mouth.mouthRuns[1].tEnd = now - 2

\* the raw-closed samples among the last c frames
ClosedAmongLast(c) == Cardinality({k \in (K - c + 1)..K : RawClosedAt(k)})

\* C9: the ring of raw-closed samples.  After k frames, more than the capacity
\* included, its count is min(k, 450) and at most its capacity, its running sum
\* is the sum of the last count samples pushed, which are the samples it
\* holds, its mean is that sum over count (0 when empty), and perclos_30s is
\* the fraction of raw-closed frames among the last min(k, 450) frames.
C9_RingPerclos ==
  LET c == Min(K, 450)
      closed == ClosedAmongLast(c)
  IN  /\ rbEyeClosed.count = c /\ rbEyeClosed.count <= rbEyeClosed.n
      /\ rbEyeClosed.n = 450
      /\ rbEyeClosed.sum = closed
      /\ Cardinality({k \in 0..(rbEyeClosed.n - 1) : rbEyeClosed.buf[k] = 1}) = closed
      /\ \A k \in 0..(rbEyeClosed.n - 1) : rbEyeClosed.buf[k] \in {0, 1}
      /\ RingMean(rbEyeClosed) = IF c = 0 THEN 0 ELSE RoundDiv(closed * SCALE, c)
      /\ K >= 1 => out.rawFeat.perclos_30s = RoundDiv(closed * SCALE, c)

\* more frames than the ring holds were processed, closed and open ones among
\* the last 450, and the last frames differ from the ones they evicted
C9_Witness ==
  /\ K >= 450 + 2 /\ rbEyeClosed.count = 450
  /\ rbEyeClosed.sum > 0 /\ rbEyeClosed.sum < 450
  /\ RawClosedAt(K - 450) /\ ~RawClosedAt(K)
  /\ ~RawClosedAt(K - 451) /\ RawClosedAt(K - 1)

\* C10: normalization finalization.  In a session started with normalization
\* enabled, once 10.0 s have passed since the collection began and at least 60
\* samples were accumulated, the statistics are present, with the mean of each
\* feature its sum over the count, and the row appended on every later frame
\* is the z-score of the frame's features under those statistics.
C10_NormFinalization ==
  (normalizationEnabled /\ K >= 1 /\ now - norm.normT0 >= 10 * 15 /\ norm.baseCnt >= 60) =>
    /\ baselineStats.mu # <<>> /\ baselineStats.sigma # <<>>
    /\ \A i \in 1..F : baselineStats.mu[i] = RoundDiv(norm.baseSum[i], norm.baseCnt)
    /\ now - norm.normT0 > 10 * 15 =>
         featBuf[Len(featBuf)] =
           [i \in 1..F |-> DivFx(Sub(out.rawFeat[FEAT_ORDER[i]], baselineStats.mu[i]),
                                 Max(1, baselineStats.sigma[i]))]

HysteresisOf(prev, p) ==
  IF ~prev /\ p >= Pct(65) THEN TRUE
  ELSE IF prev /\ p <= Pct(55) THEN FALSE
  ELSE prev

\* C1: the hysteresis on the classifier output.  On every frame where the
\* classifier is invoked the drowsy flag becomes true exactly when it was
\* false and the probability is >= 0.65, becomes false exactly when it was
\* true and the probability is <= 0.55, and otherwise keeps its value, so that
\* it never changes on a probability strictly between 0.55 and 0.65; for the
\* outputs 0.70, 0.60, 0.50, 0.60, 0.70 the flag is true, true, false, false,
\* true.
C1_TcnHysteresis ==
  /\ Len(hist.drowsy) = Len(hist.probs)
  /\ \A i \in 1..Len(hist.probs) :
       hist.drowsy[i] = HysteresisOf(IF i = 1 THEN FALSE ELSE hist.drowsy[i - 1], hist.probs[i])
  /\ out.invoked =>
       /\ out.prob = hist.probs[Len(hist.probs)]
       /\ tcnIsDrowsy = hist.drowsy[Len(hist.drowsy)]
       /\ tcnIsDrowsy = HysteresisOf(Pre.tcnIsDrowsy, out.prob)
       /\ (out.prob > Pct(55) /\ out.prob < Pct(65)) => tcnIsDrowsy = Pre.tcnIsDrowsy
       /\ tcnText = [kind |-> IF tcnIsDrowsy THEN "Drowsy" ELSE "Awake", n |-> out.prob]
  /\ hist.probs = << Pct(70), Pct(60), Pct(50), Pct(60), Pct(70) >> =>
       hist.drowsy = << TRUE, TRUE, FALSE, FALSE, TRUE >>

\* the classifier has answered 0.70, 0.60, 0.50, 0.60, 0.70
C1_Witness ==
  /\ hist.probs = << Pct(70), Pct(60), Pct(50), Pct(60), Pct(70) >>
  /\ hist.drowsy = << TRUE, TRUE, FALSE, FALSE, TRUE >>
  /\ out.invoked /\ tcnIsDrowsy /\ ~Pre.tcnIsDrowsy

\* C2: the window.  After k frames featBuf holds at most 90 rows, and they are
\* the last min(k, 90) rows appended, in the order of their arrival: once it
\* holds 90, an append evicts the oldest row.
C2_WindowFifo ==
  /\ Len(hist.pushed) = K
  /\ Len(featBuf) = Min(K, 90)
  /\ featBuf = SubSeq(hist.pushed, K - Min(K, 90) + 1, K)

\* 92 frames were processed: the window dropped the first two rows, and its
\* oldest row is none of them
C2_Witness ==
  /\ K = 90 + 2 /\ Len(featBuf) = 90
  /\ featBuf[1] = hist.pushed[3] /\ featBuf[90] = hist.pushed[K]
  /\ featBuf[1] # hist.pushed[1] /\ featBuf[1] # hist.pushed[2]

\* C3 as stated: on every frame at whose end the window holds fewer than 90
\* rows the classifier is not invoked, the drowsy flag is unchanged and the
\* status reads "Warming n/90" with n the length of the window; the classifier
\* is invoked only on frames where the window holds 90 rows.
C3_WarmUpAsStated ==
  K >= 1 =>
    /\ Len(featBuf) < 90 =>
         /\ ~out.invoked /\ tcnIsDrowsy = Pre.tcnIsDrowsy
         /\ tcnText = [kind |-> "Warming", n |-> Len(featBuf)]
    /\ out.invoked => Len(featBuf) = 90

\* C3, amended: on every frame at whose end the window holds fewer than 90
\* rows the classifier is not invoked and the drowsy flag is unchanged; the
\* status reads "TCN not loaded" when the classifier is not loaded, otherwise
\* "Awaiting mu/sigma" when normalization is enabled and no statistics are
\* present, and otherwise "Warming n/90" with n the length of the window; the
\* classifier is invoked only on frames where the window holds 90 rows.
C3_WarmUp ==
  K >= 1 =>
    /\ Len(featBuf) < 90 =>
         /\ ~out.invoked /\ tcnIsDrowsy = Pre.tcnIsDrowsy
         /\ tcnText = IF ~tcnModel THEN [kind |-> "TCN not loaded", n |-> 0]
                      ELSE IF normalizationEnabled /\ baselineStats.mu = <<>>
                      THEN [kind |-> "Awaiting", n |-> 0]
                      ELSE [kind |-> "Warming", n |-> Len(featBuf)]
    /\ out.invoked => (Len(featBuf) = 90 /\ tcnModel)

\* the last frame of the warm-up, without normalization: 89 rows, no
\* invocation, progress 89
C3_Witness ==
  /\ K = 89 /\ Len(featBuf) = 89 /\ tcnModel /\ ~normalizationEnabled
  /\ ~out.invoked /\ tcnText = [kind |-> "Warming", n |-> 89]

\* C11: insufficient calibration data.  In a session started with
\* normalization enabled, once the 10.0 s collection window has elapsed with
\* fewer than 60 samples accumulated, the collection is over, the status reads
\* "unstable", the statistics are absent and the rows appended are the
\* features unchanged.
C11_NormUnstable ==
  (normalizationEnabled /\ K >= 1 /\ now - norm.normT0 >= 10 * 15 /\ norm.baseCnt < 60) =>
    /\ ~norm.normMode
    /\ normSummary = "unstable"
    /\ baselineStats = NoStats
    /\ featBuf[Len(featBuf)] = rawToVector(out.rawFeat)

\* C12: finite feature vector.  On every processed frame, whatever inputs were
\* finite or not, each of the 20 features assembled and each entry of the row
\* appended to the window is finite.
C12_FiniteFeatures ==
  K >= 1 =>
    \A i \in 1..F :
      /\ IsFinite(out.rawFeat[FEAT_ORDER[i]])
      /\ IsFinite(featBuf[Len(featBuf)][i])

\* startProcessing has run and no frame with a face was processed since
JustStarted == runningFlag /\ ~baselineCaptured

\* C13: session reset completeness.  Right after startProcessing every piece
\* of per-session state has its initial value: the eye and mouth state
\* machines with their runs and EMAs, the PERCLOS ring, the nod flag, the
\* baseline reference, the window, the drowsy flag, the pose histories and
\* pose-rate EMAs, and the normalization statistics and accumulators.
C13_ResetComplete ==
  JustStarted =>
    /\ eye = EyeInit /\ mouth = MouthInit
    /\ rbEyeClosed = RingNew(PER_30S)
    /\ ~nodActive /\ R0 = NoBaseline
    /\ featBuf = <<>> /\ ~tcnIsDrowsy
    /\ angleBufs = [a \in Axes |-> <<>>]
    /\ deltaEMA = [a \in Axes |-> 0]
    /\ baselineStats = NoStats
    /\ norm.baseCnt = 0 /\ norm.baseSum = Zeros(F) /\ norm.baseSqSum = Zeros(F)

\* loop invocations alive: awaiting a send, or scheduled for an animation frame
LoopChains == sending + rafOther + (IF rafId = "pending" THEN 1 ELSE 0)

\* C14: no overlapping ticks.  Under every interleaving of Start, Stop,
\* animation frames and completions of sends, at most one frame is being
\* processed at any time, and at most one loop chain is alive.
C14_NoOverlap == sending <= 1 /\ LoopChains <= 1

\* C15: setNormalizationEnabled takes effect at the next session start.  The
\* value in force when a session was started decides whether that session
\* collects statistics: after its first frame with a face the collection is
\* running exactly if that value was true, and a session started with
\* normalization disabled never collects, whatever calls were made since.
C15_NormAtStart ==
  /\ K = 1 => (norm.normMode <=> hist.normAtStart)
  /\ (K >= 1 /\ ~hist.normAtStart) => ~norm.normMode

\* C16: the prolonged eye closure trigger.  On every frame at whose end the
\* eye is debounced-closed with a run of at least 12 frames, and on which no
\* prolonged episode has started in the session or the last one started at
\* least 30 frames ago, prolonged-active is true; the same for every closure of
\* the session, however late.
C16_ProlongedTrigger ==
  (/\ K >= 1
   /\ eye.eyeClosedDebounced /\ eye.eyeRunLenFrames >= 12
   /\ (hist.prolongStartTick = 0 \/ K - hist.prolongStartTick >= 30))
  => eye.prolongedEyeActive

\* the baseline-adjusted pose of the last frame, in degrees
YawNow == out.rawFeat.yaw_adj
PitchNow == out.rawFeat.pitch_adj
RollNow == out.rawFeat.roll_adj

AbsLe(v, deg) == v <= deg * SCALE /\ v >= -(deg * SCALE)

\* C17: the nod set rule.  On every frame where the prolonged eye closure is
\* active, pitch <= -4, |roll| <= 20 and |yaw| <= 10 degrees, nod-active is
\* true at the end of the frame.
C17_NodSet ==
  (/\ K >= 1 /\ out.prolonged_eye_state = 1
   /\ PitchNow <= -4 * SCALE /\ AbsLe(RollNow, 20) /\ AbsLe(YawNow, 10))
  => nodActive

\* the release condition on the last frame; the eye is "not closed" when the
\* frame's raw-closed sample is 0
NodReleaseNow ==
  ~RawClosedAt(K) \/ ~AbsLe(YawNow, 10) \/ PitchNow >= -2 * SCALE

\* C18: the nod release hysteresis.  nod-active is cleared on a frame exactly
\* when the eye is not closed on it, or |yaw| > 10, or pitch >= -2 degrees:
\* under one of these it is false at the end of the frame, and a nod-active
\* that was true stays true on every frame with none of them, also while the
\* pitch is strictly between -4 and -2 degrees or |roll| exceeds 20 degrees.
C18_NodRelease ==
  K >= 1 =>
    /\ NodReleaseNow => ~nodActive
    /\ (Pre.nodActive /\ ~NodReleaseNow) => nodActive
    /\ (Pre.nodActive /\ ~nodActive) => NodReleaseNow

\* nod-active has stayed true over a frame with roll beyond 20 degrees and
\* then a frame with the pitch between the set and the release bands
C18_Witness ==
  /\ K >= NodWarm + 3 /\ Pre.nodActive /\ nodActive
  /\ PitchNow = -3 * SCALE
  /\ angleBufs["roll"][Len(angleBufs["roll"]) - 1] = 21 * SCALE

\* no entry of a buffer of numbers is non-finite
AllFinite(seq) == \A i \in DOMAIN seq : IsFinite(seq[i])

\* C19: self-healing.  When one frame carried a non-finite pose angle or eye
\* or mouth probability and every later frame was finite, then 450 frames
\* after it every feature assembled is finite and neither the pose history,
\* the pose-rate EMAs, the eye and yawn EMAs, the rolling statistics nor the
\* window holds a non-finite value.
C19_SelfHealing ==
  K >= FaultAt + PER_30S =>
    /\ \A i \in 1..F : IsFinite(out.rawFeat[FEAT_ORDER[i]])
    /\ \A a \in Axes : AllFinite(angleBufs[a]) /\ IsFinite(deltaEMA[a])
    /\ IsFinite(eye.emaEye1) /\ IsFinite(eye.emaEye5)
    /\ IsFinite(mouth.yawnEma1)
    /\ AllFinite(rbEyeClosed.buf) /\ IsFinite(rbEyeClosed.sum)
    /\ \A r \in 1..Len(featBuf) : AllFinite(featBuf[r])

\* the step processes a frame with a face
FrameStep == hist'.ticks = hist.ticks + 1

\* C20: the baseline is captured once per session.  The first frame with a
\* face after startProcessing takes that frame's pose as the reference, no
\* later frame of the session changes it, startProcessing clears it, and
\* nothing else touches it.
C20_BaselineOnce ==
  [][ IF FrameStep
      THEN IF ~baselineCaptured
           THEN /\ baselineCaptured'
                /\ R0' = << out'.rawFeat.yaw_adj, out'.rawFeat.pitch_adj,
                            out'.rawFeat.roll_adj >>
           ELSE R0' = R0 /\ baselineCaptured'
      ELSE IF ~runningFlag /\ runningFlag'
           THEN R0' = NoBaseline /\ ~baselineCaptured'
           ELSE R0' = R0 /\ baselineCaptured' = baselineCaptured ]_vars

\* the second frame of a second session: the session took its own reference
\* (head down) on its first frame, and kept it on the next frame, head level;
\* the oldest pose of the history is the first session's
C20_Witness ==
  /\ K = 2 /\ baselineCaptured /\ R0 = PoseDown
  /\ angleBufs["pitch"] = << 0, -5 * SCALE, 5 * SCALE >>

\* C21: prolonged-active resets with the closure.  At the end of every frame
\* a prolonged-active that is true comes with a debounced-closed eye, and on
\* the frame the debounced state turns open prolonged-active is false.
C21_ProlongedResets ==
  K >= 1 =>
    /\ eye.prolongedEyeActive => eye.eyeClosedDebounced
    /\ out.prolonged_eye_state = 1 => eye.eyeClosedDebounced
    /\ BecameOpen => (~eye.prolongedEyeActive /\ out.prolonged_eye_state = 0)

\* the frame that opens the eye after a prolonged closure
C21_Witness ==
  K >= 1 /\ Pre.eye.prolongedEyeActive /\ BecameOpen /\ ~eye.prolongedEyeActive

\* 30 s on the clock
Cut30 == now - 30 * TARGET_FPS

\* list a is list b without some of its first entries
IsSuffix(a, b) == \E n \in 0..Len(b) : a = SubSeq(b, n + 1, Len(b))

\* no run of the list ended more than 30 s before the last frame
NoneStale(runs) == \A i \in 1..Len(runs) : runs[i].tEnd >= Cut30

MouthClosedNow == Pre.mouth.mouthOpen /\ ~mouth.mouthOpen

\* runs are appended only on the frame an episode ends, with that frame's
\* time, and the runs already listed are removed from the front or left as
\* they are
RunsAppendOnly ==
  /\ IF BecameOpen
     THEN /\ eye.eyeRuns # <<>> /\ eye.eyeRuns[Len(eye.eyeRuns)].tEnd = now
          /\ IsSuffix(SubSeq(eye.eyeRuns, 1, Len(eye.eyeRuns) - 1), Pre.eye.eyeRuns)
     ELSE eye.eyeRuns = Pre.eye.eyeRuns
  /\ IF MouthClosedNow
     THEN /\ mouth.mouthRuns # <<>> /\ mouth.mouthRuns[Len(mouth.mouthRuns)].tEnd = now
          /\ IsSuffix(SubSeq(mouth.mouthRuns, 1, Len(mouth.mouthRuns) - 1),
                      Pre.mouth.mouthRuns)
     ELSE mouth.mouthRuns = Pre.mouth.mouthRuns

\* C22, as stated: runs are appended only on the frame an episode ends and
\* never modified, and at the end of every frame neither list holds a run
\* that ended more than 30 s before the frame.
C22_RunPruningAsStated ==
  K >= 1 => RunsAppendOnly /\ NoneStale(eye.eyeRuns) /\ NoneStale(mouth.mouthRuns)

\* C22, as the code has it: runs are appended only on the frame an episode
\* ends and never modified; a list is pruned only on the frames that append
\* to it, so at the end of such a frame it holds no run that ended more than
\* 30 s before, and on every other frame it is left as it was.
C22_RunPruning ==
  K >= 1 =>
    /\ RunsAppendOnly
    /\ BecameOpen => NoneStale(eye.eyeRuns)
    /\ MouthClosedNow => NoneStale(mouth.mouthRuns)

\* the frame that records the second eye run removes the first, which ended
\* more than 30 s before
C22_Witness ==
  /\ K >= 1 /\ BecameOpen
  /\ Len(Pre.eye.eyeRuns) = 1 /\ Pre.eye.eyeRuns[1].tEnd < Cut30
  /\ Len(eye.eyeRuns) = 1 /\ eye.eyeRuns[1].tEnd = now

\* how many of the last processed frames in a row were raw-closed (c = TRUE)
\* or not raw-closed (c = FALSE), up to frame k
RECURSIVE Trailing(_, _)
Trailing(k, c) ==
  IF k >= 1 /\ (RawClosedAt(k) <=> c) THEN 1 + Trailing(k - 1, c) ELSE 0

\* a send completed and its results callback processed no frame
SkippedCallback == sending' = sending - 1 /\ hist'.ticks # hist.ticks + 1

\* C23: skipped callbacks.  A results callback that arrives while the session
\* is not running, or that carries no face, changes nothing of the pipeline
\* state; the frames processed around it count as consecutive: the debounce
\* counters count the processed frames in a row, and the window holds one row
\* per processed frame.
C23_SkippedCallback ==
  /\ [][ /\ (sending' = sending - 1 /\ ~runningFlag) => SkippedCallback
         /\ SkippedCallback => UNCHANGED << frameVars, now >> ]_vars
  /\ [](/\ Len(featBuf) = Min(K, TCN_WINDOW)
        /\ eye.eyeDebOn = Trailing(K, TRUE)
        /\ K >= 1 => eye.eyeDebOff = Trailing(K, FALSE)
        /\ Trailing(K, TRUE) >= 2 => eye.eyeClosedDebounced
        /\ Trailing(K, FALSE) >= 2 => ~eye.eyeClosedDebounced)

\* a send of a stopped session has completed: its callback found the session
\* not running and the session's two closed frames are as they were
C23_Witness ==
  /\ ~runningFlag /\ rafId = "pending" /\ sending = 0
  /\ K = 2 /\ eye.eyeDebOn = 2 /\ eye.eyeClosedDebounced

\* C24: nod-active implies the closure.  At the end of every frame a
\* nod-active that is true comes with a raw-closed eye on that frame, a
\* debounced-closed eye and an active prolonged closure; it is never true
\* while prolonged-active is false.
C24_NodImpliesClosure ==
  (K >= 1 /\ nodActive) =>
    /\ RawClosedAt(K) /\ out.eyeClosedRaw = 1
    /\ eye.eyeClosedDebounced
    /\ eye.prolongedEyeActive /\ out.prolonged_eye_state = 1

\* the frame on which the nod is set
C24_Witness ==
  /\ K > NodWarm /\ ~Pre.nodActive /\ nodActive
  /\ eye.prolongedEyeActive /\ RawClosedAt(K)

\* C25: eye run lengths.  Every eye run recorded has a length of at least 2
\* frames, and at the end of a frame the current run length is 0 exactly when
\* the eye is not debounced-closed, and at least 1 when it is.
C25_EyeRunLengths ==
  /\ \A i \in 1..Len(eye.eyeRuns) : eye.eyeRuns[i].lenFrames >= 2
  /\ \A i \in 1..Len(hist.eyeRunsRec) : hist.eyeRunsRec[i].lenFrames >= 2
  /\ eye.eyeRunLenFrames = 0 <=> ~eye.eyeClosedDebounced
  /\ eye.eyeClosedDebounced => eye.eyeRunLenFrames >= 1

\* the shortest closure there is has just been recorded: two closed frames,
\* then two open ones
C25_Witness ==
  /\ K = 4 /\ RawClosedAt(1) /\ RawClosedAt(2) /\ ~RawClosedAt(3) /\ ~RawClosedAt(4)
  /\ RunRecordedNow /\ LastRunRec.lenFrames = 2
  /\ Pre.eye.eyeRunLenFrames = 2 /\ eye.eyeRunLenFrames = 0

\* C26: the yawn pulse.  yawn_event_state is 1 on a frame exactly when the
\* mouth closes on it and yawn_prolonged_state was true at the end of the
\* frame before; while the mouth is open yawn_prolonged_state is true exactly
\* when the open run counts 20 frames or more; while it is closed the count
\* is 0 and yawn_prolonged_state is false.
C26_YawnPulse ==
  K >= 1 =>
    /\ out.yawn_event_state = 1 <=> (MouthClosedNow /\ Pre.mouth.yawnProlonged)
    /\ out.yawn_prolonged_state = 1 <=> mouth.yawnProlonged
    /\ mouth.mouthOpen => (mouth.yawnProlonged <=> mouth.mouthRunFrames >= 20)
    /\ ~mouth.mouthOpen => (mouth.mouthRunFrames = 0 /\ ~mouth.yawnProlonged)

\* the mouth closes after an open run of exactly 20 frames, and the pulse fires
C26_Witness ==
  /\ K >= 1 /\ MouthClosedNow /\ Pre.mouth.mouthRunFrames = 20
  /\ Pre.mouth.yawnProlonged /\ out.yawn_event_state = 1

====
